---- MODULE Spec2Model ----
(***************************************************************************)
(* rarscan (src/src/main.rs): a queue of root .rar archives found under a  *)
(* directory; each pass opens the archive, extracts it unless its manifest *)
(* is already present, enqueues nested archives, resets their mtime and    *)
(* removes aged parts; a final sweep removes aged cruft.                   *)
(*                                                                         *)
(* File names are sequences of one-character strings so that the regex and *)
(* the glob patterns of the program are computed, not assumed.  All files  *)
(* live in one directory (the scan root), except "d/h" which lives in the  *)
(* sub-directory "d".                                                      *)
(***************************************************************************)
EXTENDS Integers, Sequences, FiniteSets, TLC

\* ------------------------------------------------------------------ bounds
MaxFaults == 1      \* injected I/O failures per run
MaxRuns == 2        \* invocations of main on the same directory
MaxTokens == 5      \* tokens of a generated file name (classifier check)
MaxEntries == 3     \* manifest entries of the completeness check on its own
MaxPasses == 8      \* passes of one run that the run's record counts

\* ------------------------------------------------------------- file names
N_a_rar == <<"a", ".", "r", "a", "r">>
N_a_r00 == <<"a", ".", "r", "0", "0">>
N_a_sfv == <<"a", ".", "s", "f", "v">>
N_b_rar == <<"b", ".", "r", "a", "r">>
N_c_rar == <<"c", ".", "r", "a", "r">>
N_d == <<"d">>
N_d_h == <<"d", "/", "h">>
N_e == <<"e">>
N_f == <<"f">>
N_g == <<"g">>
N_k == <<"k">>
N_m_part1 == <<"m", ".", "p", "a", "r", "t", "1", ".", "r", "a", "r">>
N_m_part2 == <<"m", ".", "p", "a", "r", "t", "2", ".", "r", "a", "r">>
N_p_rar == <<"p", ".", "r", "a", "r">>
N_q_rar == <<"q", ".", "r", "a", "r">>

\* Every path of the modelled directory tree, in the (alphabetical) order in
\* which glob yields matches.
AllPaths ==
    << N_a_r00, N_a_rar, N_a_sfv, N_b_rar, N_c_rar, N_d, N_d_h, N_e, N_f, N_g,
       N_k, N_m_part1, N_m_part2, N_p_rar, N_q_rar >>

Paths == {AllPaths[i] : i \in 1..Len(AllPaths)}

\* ------------------------------------------------------- string primitives
Digits == {"0", "1", "2", "3", "4", "5", "6", "7", "8", "9"}

DigitVal(c) ==
    CASE c = "0" -> 0 [] c = "1" -> 1 [] c = "2" -> 2 [] c = "3" -> 3
      [] c = "4" -> 4 [] c = "5" -> 5 [] c = "6" -> 6 [] c = "7" -> 7
      [] c = "8" -> 8 [] c = "9" -> 9

\* str::parse::<u64> of a run of decimal digits (names here are far too short
\* to overflow 64 bits).
RECURSIVE ParseU64(_)
ParseU64(ds) ==
    IF ds = <<>> THEN 0
    ELSE 10 * ParseU64(SubSeq(ds, 1, Len(ds) - 1)) + DigitVal(ds[Len(ds)])

EndsWith(s, suf) ==
    /\ Len(s) >= Len(suf)
    /\ SubSeq(s, Len(s) - Len(suf) + 1, Len(s)) = suf

\* Path::file_name: the component after the last "/".
RECURSIVE FileName(_)
FileName(p) ==
    IF \E i \in 1..Len(p) : p[i] = "/"
    THEN FileName(SubSeq(p, (CHOOSE i \in 1..Len(p) : p[i] = "/") + 1, Len(p)))
    ELSE p

\* The directory a path lives in, <<>> for the scan root.
ParentDir(p) ==
    IF \E i \in 1..Len(p) : p[i] = "/"
    THEN SubSeq(p, 1, (CHOOSE i \in 1..Len(p) :
                          p[i] = "/" /\ \A j \in (i + 1)..Len(p) : p[j] # "/") - 1)
    ELSE <<>>

\* ------------------------------------------------------- is_root_rar_file
\* RE_PART_FILE = "part(\d+).rar$": the literal "part", a non-empty run of
\* digits, ANY one character (the dot is not escaped), "rar", end of text.
\* The match is a suffix of the name, so it is fixed by where it starts.
PartMatchStarts(s) ==
    { i \in 1..Len(s) :
        /\ i + 3 <= Len(s)
        /\ SubSeq(s, i, i + 3) = <<"p", "a", "r", "t">>
        /\ i + 4 <= Len(s) - 4
        /\ \A j \in (i + 4)..(Len(s) - 4) : s[j] \in Digits
        /\ s[Len(s) - 3] # "\n"
        /\ SubSeq(s, Len(s) - 2, Len(s)) = <<"r", "a", "r">> }

\* caps[1]: the digits captured by the match.
PartDigits(s) ==
    LET i == CHOOSE i \in PartMatchStarts(s) : TRUE
    IN  SubSeq(s, i + 4, Len(s) - 4)

is_root_rar_file(path) ==
    LET file_name == FileName(path)
    IN  IF PartMatchStarts(file_name) # {}
        THEN ParseU64(PartDigits(file_name)) = 1
        ELSE EndsWith(file_name, <<".", "r", "a", "r">>)

\* ------------------------------------------------------------------- glob
\* "**/*<suffix>" where "?" in the suffix stands for any one character: every
\* path whose file name ends in a text matching the suffix.
SuffixMatches(s, pat) ==
    /\ Len(s) >= Len(pat)
    /\ \A i \in 1..Len(pat) :
          \/ pat[i] = "?" /\ s[Len(s) - Len(pat) + i] # "/"
          \/ pat[i] = s[Len(s) - Len(pat) + i]

\* A pattern without "*": the whole file name matches it.
WholeMatches(s, pat) == Len(s) = Len(pat) /\ SuffixMatches(s, pat)

\* ------------------------------------------------------------- filesystem
\* One entry per path: kind "absent", "file", "dir" or "denied" (the path
\* cannot be examined: metadata fails with an error other than NotFound); len is what
\* fs::metadata().len() reports, mtime what .modified() reports, data what an
\* archive reader finds in the file ("A", "B", "C", "M": an archive with that
\* manifest; "x": no archive).
Absent == [kind |-> "absent", len |-> 0, mtime |-> 0, data |-> "-"]

File(len, mtime, data) == [kind |-> "file", len |-> len, mtime |-> mtime, data |-> data]

Dir(len, mtime) == [kind |-> "dir", len |-> len, mtime |-> mtime, data |-> "-"]

Denied == [kind |-> "denied", len |-> 0, mtime |-> 0, data |-> "-"]

\* What fs::metadata().len() may report for a directory: platform dependent.
DirLens == {0, 4}

\* unrar::FileHeader: filename, unpacked_size, is_file(), plus what extraction
\* puts on disk: the stored modification time and the file's content.
Header(filename, unpacked_size, is_file, mtime, data) ==
    [filename |-> filename, unpacked_size |-> unpacked_size, is_file |-> is_file,
     mtime |-> mtime, data |-> data]

\* The manifest an archive file lists, by the file's content.
Manifest(data) ==
    CASE data = "A" -> << Header(N_f, 2, TRUE, 0, "x"),
                          Header(N_b_rar, 1, TRUE, 0, "B"),
                          Header(N_c_rar, 1, TRUE, 0, "C") >>
      [] data = "B" -> << Header(N_g, 1, TRUE, 0, "x"),
                          Header(N_e, 0, FALSE, 0, "-") >>
      [] data = "C" -> << Header(N_d, 0, FALSE, 0, "-"),
                          Header(N_d_h, 1, TRUE, 0, "x") >>
      [] data = "M" -> << Header(N_k, 1, TRUE, 0, "x") >>
      [] data = "P" -> << Header(N_q_rar, 1, TRUE, 0, "Q") >>
      [] data = "Q" -> << Header(N_p_rar, 1, TRUE, 0, "P") >>
      [] OTHER -> <<>>

IsArchiveData(data) == data \in {"A", "B", "C", "M", "P", "Q"}

\* An injected I/O failure: the step it strikes and the index (manifest entry
\* or part) at which it strikes.
FaultKinds ==
    {"metadata", "open", "check", "extract", "truncate", "setmtime", "listparts",
     "partstat", "remove"}

NoFault == [kind |-> "none", idx |-> 0]

\* Steps that run once per pass fail at index 1; steps that run per manifest
\* entry or per part fail at any index up to the longest manifest.
Faults ==
    {NoFault}
        \cup [kind : {"metadata", "open", "listparts"}, idx : {1}]
        \cup [kind : FaultKinds \ {"metadata", "open", "listparts"},
              idx : 1..Len(Manifest("A"))]

\* The sweep examines up to every path of the tree.
SweepFaults == {NoFault} \cup [kind : {"partstat", "remove"}, idx : 1..Len(AllPaths)]

Strikes(fault, kind, idx) == fault.kind = kind /\ fault.idx = idx

\* SystemTime::elapsed().unwrap_or(0): a time in the future counts as 0.
Elapsed(mtime, now) == IF now >= mtime THEN now - mtime ELSE 0

\* Mutant: the modification time is never written.
SetModified_noop(fs, p, t) == fs

\* File::set_modified
SetModified(fs, p, t) == [fs EXCEPT ![p].mtime = t]

\* fs::remove_file
RemoveFile(fs, p) == [fs EXCEPT ![p] = Absent]

\* header.extract_with_base: writes the entry (overwriting), restores its
\* stored mtime, and creates the parent directory when it is missing.
ExtractWithBase(fs, h, now, dlen) ==
    LET dir == ParentDir(h.filename)
        fs1 == IF dir # <<>> /\ fs[dir].kind = "absent"
               THEN [fs EXCEPT ![dir] = Dir(dlen, now)]
               ELSE fs
    IN  [fs1 EXCEPT ![h.filename] = File(h.unpacked_size, h.mtime, h.data)]

\* An extraction that dies while writing the entry: a short file is left.
ExtractTruncated(fs, h, now, dlen) ==
    LET dir == ParentDir(h.filename)
        fs1 == IF dir # <<>> /\ fs[dir].kind = "absent"
               THEN [fs EXCEPT ![dir] = Dir(dlen, now)]
               ELSE fs
    IN  [fs1 EXCEPT ![h.filename] = File(0, now, "x")]

\* ---------------------------------------------------------------- Archive
\* unrar's all_parts(): for name.part<N>.rar the name with the digits replaced
\* by "?", otherwise the path itself.
MultipartStarts(s) ==
    { i \in 1..Len(s) :
        /\ i + 4 <= Len(s)
        /\ SubSeq(s, i, i + 4) = <<".", "p", "a", "r", "t">>
        /\ i + 5 <= Len(s) - 4
        /\ \A j \in (i + 5)..(Len(s) - 4) : s[j] \in Digits
        /\ EndsWith(s, <<".", "r", "a", "r">>) }

parts_glob(path) ==
    IF MultipartStarts(path) = {} THEN path
    ELSE LET i == CHOOSE i \in MultipartStarts(path) : TRUE
         IN  [j \in 1..Len(path) |->
                 IF j >= i + 5 /\ j <= Len(path) - 4 THEN "?" ELSE path[j]]

\* Archive::list_parts: the existing paths matching the parts glob.
list_parts(fs, path) ==
    LET pat == parts_glob(path)
        Hit(p) == fs[p].kind # "absent" /\ WholeMatches(p, pat)
    IN  SelectSeq(AllPaths, Hit)

\* Mutant: a size mismatch is logged but does not end the check.
RECURSIVE is_already_extracted_lenient(_, _, _, _)
is_already_extracted_lenient(headers, i, fs, fault) ==
    IF i > Len(headers) THEN "true"
    ELSE IF Strikes(fault, "check", i) \/ fs[headers[i].filename].kind = "denied"
         THEN "err"
    ELSE IF fs[headers[i].filename].kind = "absent" THEN "false"
    ELSE is_already_extracted_lenient(headers, i + 1, fs, fault)

\* Archive::is_already_extracted: "true", "false" or "err".
RECURSIVE is_already_extracted(_, _, _, _)
is_already_extracted(headers, i, fs, fault) ==
    IF i > Len(headers) THEN "true"
    ELSE IF Strikes(fault, "check", i) \/ fs[headers[i].filename].kind = "denied"
         THEN "err"
    ELSE IF fs[headers[i].filename].kind = "absent" THEN "false"
    ELSE IF fs[headers[i].filename].len # headers[i].unpacked_size THEN "false"
    ELSE is_already_extracted(headers, i + 1, fs, fault)

\* Mutant: a directory entry is materialized like a file entry's parent.
RECURSIVE extract_into_with_dirs(_, _, _, _, _, _)
extract_into_with_dirs(headers, i, fs, fault, now, dlen) ==
    IF i > Len(headers) THEN [fs |-> fs, ok |-> TRUE]
    ELSE IF Strikes(fault, "extract", i) THEN [fs |-> fs, ok |-> FALSE]
    ELSE IF headers[i].is_file
         THEN IF Strikes(fault, "truncate", i)
              THEN [fs |-> ExtractTruncated(fs, headers[i], now, dlen), ok |-> FALSE]
              ELSE extract_into_with_dirs(headers, i + 1,
                                ExtractWithBase(fs, headers[i], now, dlen),
                                fault, now, dlen)
         ELSE extract_into_with_dirs(headers, i + 1,
                 IF fs[headers[i].filename].kind = "absent"
                 THEN [fs EXCEPT ![headers[i].filename] = Dir(dlen, now)]
                 ELSE fs,
                 fault, now, dlen)

\* Archive::extract_into: file entries are written in manifest order,
\* directory entries are skipped; an error stops the stream where it is.
RECURSIVE extract_into(_, _, _, _, _, _)
extract_into(headers, i, fs, fault, now, dlen) ==
    IF i > Len(headers) THEN [fs |-> fs, ok |-> TRUE]
    ELSE IF Strikes(fault, "extract", i) THEN [fs |-> fs, ok |-> FALSE]
    ELSE IF headers[i].is_file
         THEN IF Strikes(fault, "truncate", i)
              THEN [fs |-> ExtractTruncated(fs, headers[i], now, dlen), ok |-> FALSE]
              ELSE extract_into(headers, i + 1,
                                ExtractWithBase(fs, headers[i], now, dlen),
                                fault, now, dlen)
         ELSE extract_into(headers, i + 1, fs, fault, now, dlen)

\* ---------------------------------------------------------- UnarchiveQueue
\* Option<T>: <<>> is None, <<v>> is Some(v).
None == <<>>

Some(v) == <<v>>

\* main: Duration::from_secs(60 * 60 * h)
DurationFromHours(h) == 60 * 60 * h

\* Path::join
Join(dest, filename) == IF dest = <<>> THEN filename ELSE dest \o <<"/">> \o filename

\* Mutant: a file exactly as old as the threshold is removed too.
should_remove_inclusive(mtime, remove_after, now) == Elapsed(mtime, now) >= remove_after

\* UnarchiveQueue::should_remove, given the mtime read from the path's metadata
should_remove(mtime, remove_after, now) == Elapsed(mtime, now) > remove_after

\* What one pass did: the filesystem it leaves, the paths it pushed on the
\* queue, the step that failed ("ok" if none), the completeness verdict, whether
\* extract_into was called, the paths whose mtime it set, the paths it removed
\* (with their age) and the paths should_remove selected.
PassResult(fs) ==
    [fs |-> fs, enq |-> <<>>, outcome |-> "ok", verdict |-> "-", extracted |-> FALSE,
     entry_mtime |-> 0, touched |-> {}, removed |-> {}, cands |-> {}]

\* Mutant: nested archives get their mtime set but are not enqueued.
RECURSIVE nested_loop_no_push(_, _, _, _, _, _)
nested_loop_no_push(headers, i, acc, dest, entry_mtime, fault) ==
    IF i > Len(headers) THEN acc
    ELSE IF ~is_root_rar_file(headers[i].filename)
         THEN nested_loop_no_push(headers, i + 1, acc, dest, entry_mtime, fault)
    ELSE LET extracted_path == Join(dest, headers[i].filename)
         IN  IF acc.fs[extracted_path].kind # "file" \/ Strikes(fault, "setmtime", i)
             THEN [acc EXCEPT !.outcome = "setmtime"]
             ELSE nested_loop_no_push(headers, i + 1,
                     [acc EXCEPT !.fs = SetModified(@, extracted_path, entry_mtime),
                                 !.touched = @ \cup {extracted_path}],
                     dest, entry_mtime, fault)

\* Mutant: a failed open/set_modified is remembered but the loop goes on.
RECURSIVE nested_loop_keeps_going(_, _, _, _, _, _)
nested_loop_keeps_going(headers, i, acc, dest, entry_mtime, fault) ==
    IF i > Len(headers) THEN acc
    ELSE IF ~is_root_rar_file(headers[i].filename)
         THEN nested_loop_keeps_going(headers, i + 1, acc, dest, entry_mtime, fault)
    ELSE LET extracted_path == Join(dest, headers[i].filename)
             pushed == [acc EXCEPT !.enq = Append(@, extracted_path)]
         IN  IF acc.fs[extracted_path].kind # "file" \/ Strikes(fault, "setmtime", i)
             THEN nested_loop_keeps_going(headers, i + 1,
                     [pushed EXCEPT !.outcome = "setmtime"],
                     dest, entry_mtime, fault)
             ELSE nested_loop_keeps_going(headers, i + 1,
                     [pushed EXCEPT !.fs = SetModified(@, extracted_path, entry_mtime),
                                    !.touched = @ \cup {extracted_path}],
                     dest, entry_mtime, fault)

\* process_entry, lines 98-120: enqueue every nested root archive and set its
\* mtime to the container's; the first failing open/set_modified ends the loop.
RECURSIVE nested_loop(_, _, _, _, _, _)
nested_loop(headers, i, acc, dest, entry_mtime, fault) ==
    IF i > Len(headers) THEN acc
    ELSE IF ~is_root_rar_file(headers[i].filename)
         THEN nested_loop(headers, i + 1, acc, dest, entry_mtime, fault)
    ELSE LET extracted_path == Join(dest, headers[i].filename)
             pushed == [acc EXCEPT !.enq = Append(@, extracted_path)]
         IN  IF acc.fs[extracted_path].kind # "file" \/ Strikes(fault, "setmtime", i)
             THEN [pushed EXCEPT !.outcome = "setmtime"]
             ELSE nested_loop(headers, i + 1,
                     [pushed EXCEPT !.fs = SetModified(@, extracted_path, entry_mtime),
                                    !.touched = @ \cup {extracted_path}],
                     dest, entry_mtime, fault)

\* process_entry, lines 122-133: remove every part older than remove_after;
\* the first failing stat or removal ends the loop.
RECURSIVE retention_pass(_, _, _, _, _, _, _)
retention_pass(parts, j, acc, dry_run, remove_after, fault, now) ==
    IF j > Len(parts) THEN acc
    ELSE IF acc.fs[parts[j]].kind \in {"absent", "denied"} \/ Strikes(fault, "partstat", j)
         THEN [acc EXCEPT !.outcome = "partstat"]
    ELSE IF ~should_remove(acc.fs[parts[j]].mtime, remove_after, now)
         THEN retention_pass(parts, j + 1, acc, dry_run, remove_after, fault, now)
    ELSE LET sel == [acc EXCEPT !.cands = @ \cup {parts[j]}]
             age == Elapsed(acc.fs[parts[j]].mtime, now)
         IN  IF dry_run
             THEN retention_pass(parts, j + 1, sel, dry_run, remove_after, fault, now)
             ELSE IF Strikes(fault, "remove", j)
                  THEN [sel EXCEPT !.outcome = "remove"]
                  ELSE retention_pass(parts, j + 1,
                          [sel EXCEPT !.fs = RemoveFile(@, parts[j]),
                                      !.removed = @ \cup {[path |-> parts[j], age |-> age]}],
                          dry_run, remove_after, fault, now)

\* Mutant: parts are retired only when the archive was found extracted.
retention_step_if_already(r, entry, dry_run, remove_after, fault, now) ==
    IF remove_after = None \/ r.verdict # "already" THEN r
    ELSE retention_pass(list_parts(r.fs, entry), 1, r, dry_run, remove_after[1],
                        fault, now)

\* Mutant: an absent policy is taken for a threshold of zero.
retention_step_unguarded(r, entry, dry_run, remove_after, fault, now) ==
    retention_pass(list_parts(r.fs, entry), 1, r, dry_run,
                   IF remove_after = None THEN 0 ELSE remove_after[1], fault, now)

\* process_entry, lines 122-133: the retention pass runs only under a policy.
retention_step(r, entry, dry_run, remove_after, fault, now) ==
    IF remove_after = None THEN r
    ELSE IF Strikes(fault, "listparts", 1) THEN [r EXCEPT !.outcome = "listparts"]
    ELSE retention_pass(list_parts(r.fs, entry), 1, r, dry_run, remove_after[1],
                        fault, now)

\* UnarchiveQueue::process_entry
process_entry(entry, fs, dry_run, remove_after, fault, now, dlen) ==
    LET r0 == PassResult(fs)
    IN
    IF fs[entry].kind \in {"absent", "denied"} \/ Strikes(fault, "metadata", 1)
    THEN [r0 EXCEPT !.outcome = "metadata"]
    ELSE
    LET entry_mtime == fs[entry].mtime
        r1 == [r0 EXCEPT !.entry_mtime = entry_mtime]
    IN
    IF fs[entry].kind # "file" \/ ~IsArchiveData(fs[entry].data) \/ Strikes(fault, "open", 1)
    THEN [r1 EXCEPT !.outcome = "open"]
    ELSE
    LET headers == Manifest(fs[entry].data)
        dest == ParentDir(entry)
        chk == is_already_extracted(headers, 1, fs, fault)
    IN
    IF chk = "err" THEN [r1 EXCEPT !.outcome = "check"]
    ELSE
    LET ex == IF chk = "true" \/ dry_run
              THEN [fs |-> fs, ok |-> TRUE]
              ELSE extract_into(headers, 1, fs, fault, now, dlen)
        r2 == [r1 EXCEPT !.verdict = IF chk = "true" THEN "already" ELSE "extract",
                         !.extracted = (chk = "false" /\ ~dry_run),
                         !.fs = ex.fs]
    IN
    IF ~ex.ok THEN [r2 EXCEPT !.outcome = "extract"]
    ELSE
    LET r3 == nested_loop(headers, 1, r2, dest, entry_mtime, fault)
    IN
    IF r3.outcome # "ok" THEN r3
    ELSE retention_step(r3, entry, dry_run, remove_after, fault, now)

\* Mutant: the Err of process_entry is propagated with "?".
process_next_propagates(r) == [ret |-> r.outcome = "ok", abort |-> r.outcome # "ok"]

\* UnarchiveQueue::process_next, lines 73-76: an Err of process_entry is logged
\* and the call still returns Ok(true).  ret is the bool returned, abort
\* whether an Err leaves process_next.
process_next_result(r) == [ret |-> TRUE, abort |-> FALSE]

\* UnarchiveQueue::find_rar_files: the root archives among "**/*.rar".
find_rar_files(fs) ==
    LET Hit(p) == /\ fs[p].kind # "absent"
                  /\ SuffixMatches(p, <<".", "r", "a", "r">>)
                  /\ is_root_rar_file(p)
    IN  SelectSeq(AllPaths, Hit)

\* find_cruft's remove_pattern closure over the matches of one glob.
RECURSIVE remove_pattern(_, _, _, _, _, _, _)
remove_pattern(matches, j, acc, dry_run, remove_after, fault, now) ==
    IF j > Len(matches) THEN acc
    ELSE IF acc.fs[matches[j]].kind \in {"absent", "denied"} \/ Strikes(fault, "partstat", j)
         THEN [acc EXCEPT !.outcome = "partstat"]
    ELSE IF ~should_remove(acc.fs[matches[j]].mtime, remove_after, now)
         THEN remove_pattern(matches, j + 1, acc, dry_run, remove_after, fault, now)
    ELSE LET sel == [acc EXCEPT !.cands = @ \cup {matches[j]}]
             age == Elapsed(acc.fs[matches[j]].mtime, now)
         IN  IF dry_run
             THEN remove_pattern(matches, j + 1, sel, dry_run, remove_after, fault, now)
             ELSE IF Strikes(fault, "remove", j) \/ acc.fs[matches[j]].kind = "dir"
                  THEN [sel EXCEPT !.outcome = "remove"]
                  ELSE remove_pattern(matches, j + 1,
                          [sel EXCEPT !.fs = RemoveFile(@, matches[j]),
                                      !.removed = @ \cup {[path |-> matches[j], age |-> age]}],
                          dry_run, remove_after, fault, now)

GlobSuffix(fs, pat) ==
    LET Hit(p) == fs[p].kind # "absent" /\ SuffixMatches(p, pat)
    IN  SelectSeq(AllPaths, Hit)

\* UnarchiveQueue::find_cruft: "**/*.r??" then "**/*.sfv"; an error in the
\* first pattern skips the second.  A fault index past the first pattern's
\* matches strikes in the second.
find_cruft(fs, dry_run, remove_after, fault, now) ==
    LET m1 == GlobSuffix(fs, <<".", "r", "?", "?">>)
        a1 == remove_pattern(m1, 1, PassResult(fs), dry_run, remove_after, fault, now)
        m2 == GlobSuffix(a1.fs, <<".", "s", "f", "v">>)
        f2 == IF fault.idx > Len(m1)
              THEN [fault EXCEPT !.idx = @ - Len(m1)]
              ELSE NoFault
    IN  IF a1.outcome # "ok" THEN a1
        ELSE remove_pattern(m2, 1, a1, dry_run, remove_after, f2, now)

\* ---------------------------------------------------------------- fixtures
Hour == 60 * 60

Now0 == 4 * Hour

EmptyTree == [p \in Paths |-> Absent]

\* Sources only: a.rar with an old-style volume and a checksum file, and the
\* two-part archive m (part 2 carries a modification time in the future).
Sources ==
    [EmptyTree EXCEPT ![N_a_rar] = File(3, Now0 - 2 * Hour, "A"),
                      ![N_a_r00] = File(3, Now0 - 2 * Hour, "x"),
                      ![N_a_sfv] = File(1, Now0 - Hour, "x"),
                      ![N_m_part1] = File(2, Now0 - 3 * Hour, "M"),
                      ![N_m_part2] = File(2, Now0 + Hour, "x")]

\* Everything already unpacked by hand: extracted files carry their stored
\* modification time, the empty directory e of b.rar was never created.
Unpacked ==
    [Sources EXCEPT ![N_f] = File(2, 0, "x"),
                    ![N_b_rar] = File(1, 0, "B"),
                    ![N_c_rar] = File(1, 0, "C"),
                    ![N_g] = File(1, 0, "x"),
                    ![N_d] = Dir(4, Hour),
                    ![N_d_h] = File(1, 0, "x"),
                    ![N_k] = File(1, 0, "x")]

\* A broken earlier extraction: f is short and b.rar is not a readable archive.
Damaged ==
    [Sources EXCEPT ![N_f] = File(1, Hour, "x"),
                    ![N_b_rar] = File(1, Hour, "x"),
                    ![N_c_rar] = File(1, 0, "C")]

Fixtures == {Sources, Unpacked, Damaged}

\* Two archives that hold each other: p.rar lists q.rar and q.rar lists p.rar.
Cyclic ==
    [EmptyTree EXCEPT ![N_p_rar] = File(1, Now0 - 2 * Hour, "P"),
                      ![N_q_rar] = File(1, Now0 - 2 * Hour, "Q")]

\* --remove-after-hours: absent, or a number of hours
HourArgs == {None, Some(0), Some(1), Some(2)}

\* ------------------------------------------------------------------- state
VARIABLES
    fs,          \* the directory tree
    queue,       \* UnarchiveQueue.queue
    dry_run,     \* UnarchiveQueue.dry_run
    remove_after,\* UnarchiveQueue.remove_after: None or Some(seconds)
    now,         \* the wall clock
    pc,          \* where main is: "scan", "queue", "cruft", "done"
    exit_code,   \* "running", "ok" (main returned Ok) or "err"
    run,         \* which invocation of main this is
    faultsLeft,  \* I/O failures the environment may still inject
    last,        \* what the last step did
    fs0,         \* the directory tree when this run started
    runlog,      \* this run: archives extracted, failed passes, removals, nested
                 \* archives whose container was removed
    prevClean,   \* the previous run ended Ok without a failed pass
    probe        \* the input and the result of a function examined on its own

vars ==
    << fs, queue, dry_run, remove_after, now, pc, exit_code, run, faultsLeft, last,
       fs0, runlog, prevClean, probe >>

NoStep == [kind |-> "none", entry |-> <<>>, res |-> PassResult(EmptyTree),
           ret |-> FALSE, fsBefore |-> EmptyTree, qBefore |-> <<>>]

EmptyLog == [extracted |-> {}, errs |-> 0, removed |-> {}, passes |-> 0, swept |-> 0,
             doomed |-> {}]

NoProbe == [name |-> <<>>, verdict |-> "unknown", headers |-> <<>>, result |-> "none"]

Init ==
    /\ fs \in Fixtures
    /\ fs0 = fs
    /\ queue = <<>>
    /\ dry_run \in BOOLEAN
    /\ \E h \in HourArgs :
          remove_after = IF h = None THEN None ELSE Some(DurationFromHours(h[1]))
    /\ now = Now0
    /\ pc = "scan"
    /\ exit_code = "running"
    /\ run = 1
    /\ faultsLeft = MaxFaults
    /\ last = NoStep
    /\ runlog = EmptyLog
    /\ prevClean = FALSE
    /\ probe = NoProbe

\* main, line 257: discovery; a glob error is fatal.
FindRarFiles ==
    /\ pc = "scan"
    /\ \E fail \in BOOLEAN :
          /\ fail => faultsLeft > 0
          /\ faultsLeft' = IF fail THEN faultsLeft - 1 ELSE faultsLeft
          /\ queue' = IF fail THEN <<>> ELSE find_rar_files(fs)
          /\ pc' = IF fail THEN "done" ELSE "queue"
          /\ exit_code' = IF fail THEN "err" ELSE "running"
          /\ last' = [NoStep EXCEPT !.kind = IF fail THEN "scanfail" ELSE "scan",
                                    !.fsBefore = fs]
    /\ UNCHANGED << fs, dry_run, remove_after, now, run, fs0, runlog, prevClean,
                    probe >>

\* Mutant: main goes on to the sweep while archives are still queued.
QueueDrained_early ==
    /\ pc = "queue"
    /\ pc' = IF remove_after # None THEN "cruft" ELSE "done"
    /\ exit_code' = IF remove_after # None THEN "running" ELSE "ok"
    /\ last' = [NoStep EXCEPT !.kind = "drained", !.fsBefore = fs]
    /\ UNCHANGED << fs, queue, dry_run, remove_after, now, run, faultsLeft, fs0,
                    runlog, prevClean, probe >>

\* main, line 258, one call of process_next on an empty queue: Ok(false) ends
\* the loop; lines 260-264 follow.
QueueDrained ==
    /\ pc = "queue"
    /\ queue = <<>>
    /\ pc' = IF remove_after # None THEN "cruft" ELSE "done"
    /\ exit_code' = IF remove_after # None THEN "running" ELSE "ok"
    /\ last' = [NoStep EXCEPT !.kind = "drained", !.fsBefore = fs]
    /\ UNCHANGED << fs, queue, dry_run, remove_after, now, run, faultsLeft, fs0,
                    runlog, prevClean, probe >>

\* main, line 258, one call of process_next on a non-empty queue.
ProcessNext ==
    /\ pc = "queue"
    /\ queue # <<>>
    /\ \E fault \in Faults, dlen \in DirLens :
          LET entry == Head(queue)
              r == process_entry(entry, fs, dry_run, remove_after, fault, now, dlen)
              quiet == process_entry(entry, fs, dry_run, remove_after, NoFault, now, dlen)
              pr == process_next_result(r)
          IN  /\ fault # NoFault => faultsLeft > 0 /\ r # quiet
              /\ faultsLeft' = IF fault # NoFault THEN faultsLeft - 1 ELSE faultsLeft
              /\ fs' = r.fs
              /\ queue' = Tail(queue) \o r.enq
              /\ pc' = IF pr.abort THEN "done" ELSE "queue"
              /\ exit_code' = IF pr.abort THEN "err" ELSE "running"
              /\ last' = [kind |-> "pass", entry |-> entry, res |-> r, ret |-> pr.ret,
                          fsBefore |-> fs, qBefore |-> queue]
              /\ runlog' = [runlog EXCEPT
                    !.extracted = IF r.extracted THEN @ \cup {entry} ELSE @,
                    !.errs = IF r.outcome # "ok" /\ @ < MaxPasses THEN @ + 1 ELSE @,
                    !.passes = IF @ < MaxPasses THEN @ + 1 ELSE @,
                    !.removed = @ \cup r.removed,
                    !.doomed = IF r.removed # {} THEN @ \cup r.touched ELSE @]
    /\ UNCHANGED << dry_run, remove_after, now, run, fs0, prevClean, probe >>

\* main, lines 260-264: the cruft sweep; its error is main's error.
FindCruft ==
    /\ pc = "cruft"
    /\ \E fault \in SweepFaults :
          LET r == find_cruft(fs, dry_run, remove_after[1], fault, now)
              quiet == find_cruft(fs, dry_run, remove_after[1], NoFault, now)
          IN  /\ fault # NoFault => faultsLeft > 0 /\ r # quiet
              /\ faultsLeft' = IF fault # NoFault THEN faultsLeft - 1 ELSE faultsLeft
              /\ fs' = r.fs
              /\ exit_code' = IF r.outcome = "ok" THEN "ok" ELSE "err"
              /\ last' = [kind |-> "cruft", entry |-> <<>>, res |-> r, ret |-> FALSE,
                          fsBefore |-> fs, qBefore |-> queue]
              /\ runlog' = [runlog EXCEPT !.removed = @ \cup r.removed,
                                          !.swept = @ + 1]
    /\ pc' = "done"
    /\ UNCHANGED << queue, dry_run, remove_after, now, run, fs0, prevClean, probe >>

\* The program is started again on the directory the previous run left, at
\* once or an hour later.
Rerun ==
    /\ pc = "done"
    /\ run < MaxRuns
    /\ run' = run + 1
    /\ \E dt \in {0, Hour} : now' = now + dt
    /\ pc' = "scan"
    /\ exit_code' = "running"
    /\ queue' = <<>>
    /\ fs0' = fs
    /\ prevClean' = (exit_code = "ok" /\ runlog.errs = 0)
    /\ runlog' = EmptyLog
    /\ last' = NoStep
    /\ UNCHANGED << fs, dry_run, remove_after, faultsLeft, probe >>

Next == FindRarFiles \/ QueueDrained \/ ProcessNext \/ FindCruft \/ Rerun

Spec == Init /\ [][Next]_vars

\* ------------------------------------------------------ one run, to its end
\* One invocation of main, on the fixtures above or on the archives that hold
\* each other.  main is sequential code that keeps running: its next step is
\* taken whenever there is one.
InitRun ==
    /\ fs \in Fixtures \cup {Cyclic}
    /\ fs0 = fs
    /\ queue = <<>>
    /\ dry_run \in BOOLEAN
    /\ \E h \in HourArgs :
          remove_after = IF h = None THEN None ELSE Some(DurationFromHours(h[1]))
    /\ now = Now0
    /\ pc = "scan"
    /\ exit_code = "running"
    /\ run = 1
    /\ faultsLeft = MaxFaults
    /\ last = NoStep
    /\ runlog = EmptyLog
    /\ prevClean = FALSE
    /\ probe = NoProbe

NextRun == FindRarFiles \/ QueueDrained \/ ProcessNext \/ FindCruft

SpecRun == InitRun /\ [][NextRun]_vars /\ WF_vars(NextRun)

\* ------------------------------------------------- is_root_rar_file alone
\* File names are built from these pieces.
Tokens ==
    { <<"x">>, <<".">>, <<"0">>, <<"1">>, <<"p", "a", "r", "t">>, <<"r", "a", "r">>,
      <<".", "r", "a", "r">> }

RECURSIVE Flatten(_)
Flatten(toks) == IF toks = <<>> THEN <<>> ELSE Head(toks) \o Flatten(Tail(toks))

ProbeFrame ==
    /\ fs = EmptyTree
    /\ fs0 = fs
    /\ queue = <<>>
    /\ dry_run = FALSE
    /\ remove_after = None
    /\ now = Now0
    /\ pc = "probe"
    /\ exit_code = "running"
    /\ run = 1
    /\ faultsLeft = 0
    /\ last = NoStep
    /\ runlog = EmptyLog
    /\ prevClean = FALSE

InitClassify == ProbeFrame /\ probe = NoProbe

\* One more piece is appended to the file name.
AppendToken ==
    /\ Len(probe.name) < MaxTokens
    /\ \E t \in Tokens :
          probe' = [probe EXCEPT !.name = Append(@, t), !.verdict = "unknown"]
    /\ UNCHANGED << fs, queue, dry_run, remove_after, now, pc, exit_code, run,
                    faultsLeft, last, fs0, runlog, prevClean >>

\* is_root_rar_file is called on the file name.
Classify ==
    /\ probe.name # <<>>
    /\ probe.verdict = "unknown"
    /\ probe' = [probe EXCEPT !.verdict =
                    IF is_root_rar_file(Flatten(probe.name)) THEN "root" ELSE "other"]
    /\ UNCHANGED << fs, queue, dry_run, remove_after, now, pc, exit_code, run,
                    faultsLeft, last, fs0, runlog, prevClean >>

NextClassify == AppendToken \/ Classify

SpecClassify == InitClassify /\ [][NextClassify]_vars

\* --------------------------------------------- is_already_extracted alone
\* A manifest of up to five file entries, and every way its destination files
\* can be: present with the manifest's size ("match"), present with another
\* size ("short"), missing ("absent"), unreadable ("denied").
CheckHeaders ==
    << Header(N_f, 2, TRUE, 0, "x"), Header(N_g, 1, TRUE, 0, "x"),
       Header(N_k, 1, TRUE, 0, "x"), Header(N_d_h, 1, TRUE, 0, "x"),
       Header(N_b_rar, 1, TRUE, 0, "B") >>

EntryStates == {"match", "short", "absent", "denied"}

TreeOf(headers, st) ==
    [p \in Paths |->
        IF \E i \in 1..Len(headers) : headers[i].filename = p
        THEN LET i == CHOOSE i \in 1..Len(headers) : headers[i].filename = p
             IN  CASE st[i] = "match" -> File(headers[i].unpacked_size, 0, headers[i].data)
                   [] st[i] = "short" -> File(headers[i].unpacked_size - 1, 0, "x")
                   [] st[i] = "absent" -> Absent
                   [] st[i] = "denied" -> Denied
        ELSE Absent]

InitCheck ==
    /\ \E n \in 1..MaxEntries :
          /\ n <= Len(CheckHeaders)
          /\ \E st \in [1..n -> EntryStates] :
                /\ fs = TreeOf(SubSeq(CheckHeaders, 1, n), st)
                /\ probe = [NoProbe EXCEPT !.headers = SubSeq(CheckHeaders, 1, n)]
    /\ fs0 = fs
    /\ queue = <<>>
    /\ dry_run = FALSE
    /\ remove_after = None
    /\ now = Now0
    /\ pc = "probe"
    /\ exit_code = "running"
    /\ run = 1
    /\ faultsLeft = 0
    /\ last = NoStep
    /\ runlog = EmptyLog
    /\ prevClean = FALSE

\* is_already_extracted is called on the manifest and the tree.
CheckExtracted ==
    /\ probe.headers # <<>>
    /\ probe.result = "none"
    /\ probe' = [probe EXCEPT !.result = is_already_extracted(probe.headers, 1, fs, NoFault)]
    /\ UNCHANGED << fs, queue, dry_run, remove_after, now, pc, exit_code, run,
                    faultsLeft, last, fs0, runlog, prevClean >>

NextCheck == CheckExtracted

SpecCheck == InitCheck /\ [][NextCheck]_vars

\* ------------------------------------------------------------------ claims
IsPass == last.kind = "pass"

\* The manifest the last pass read, and its root-archive entries' destinations.
LastHeaders == Manifest(last.fsBefore[last.entry].data)

RootEntries(headers) ==
    LET IsRoot(h) == is_root_rar_file(h.filename)
        roots == SelectSeq(headers, IsRoot)
    IN  [i \in 1..Len(roots) |-> roots[i].filename]

\* No I/O failure was injected so far.
NoFaultYet == faultsLeft = MaxFaults

\* C1: in dry-run mode no filesystem-mutating call executes, so the directory
\* tree stays what it was when the run started.
C1_DryRunLeavesTree == dry_run => fs = fs0

\* C2: without a retention policy and with dry-run off, a second run on the
\* directory left by a first run that ended without any error extracts nothing
\* and leaves the tree as it found it.
C2_SecondRunIdle ==
    (run = 2 /\ ~dry_run /\ remove_after = None /\ prevClean /\ NoFaultYet)
        => (runlog.extracted = {} /\ fs = fs0)

\* C3: a failed pass never aborts the queue: process_next returned Ok(true),
\* the loop goes on with exactly the paths that were still queued (followed by
\* what the pass pushed), and main fails only by discovery or by the sweep.
C3_ErrorsDoNotAbort ==
    /\ IsPass => /\ last.ret = TRUE
                 /\ pc = "queue"
                 /\ exit_code = "running"
                 /\ queue = Tail(last.qBefore) \o last.res.enq
    /\ exit_code = "err" =>
          \/ last.kind = "scanfail"
          \/ last.kind = "cruft" /\ last.res.outcome # "ok"
    /\ (pc = "done" /\ last.kind \in {"drained", "cruft"} /\ last.res.outcome = "ok")
          => exit_code = "ok"

C3_Witness ==
    /\ IsPass
    /\ last.res.outcome # "ok"
    /\ Tail(last.qBefore) # <<>>
    /\ runlog.errs >= 1

\* C4: whatever the retention pass or the sweep removed had, when it was
\* examined, a modification time more than the threshold in the past; a file
\* modified in the future, or exactly the threshold ago, is never removed.
C4_RemovedOnlyIfOlder ==
    last.kind \in {"pass", "cruft"} =>
        /\ \A rec \in last.res.removed :
              /\ remove_after # None
              /\ rec.age > remove_after[1]
        /\ \A p \in Paths :
              (last.fsBefore[p].kind # "absent" /\ fs[p].kind = "absent") =>
                  /\ remove_after # None
                  /\ \E rec \in last.res.removed : rec.path = p
                  /\ p \notin last.res.touched =>
                        now - last.fsBefore[p].mtime > remove_after[1]

\* A part was removed while a sibling exactly as old as the threshold (its
\* modification time lies in the future, the threshold is 0) was kept.
C4_Witness ==
    /\ IsPass
    /\ last.res.outcome = "ok"
    /\ last.res.removed # {}
    /\ \E p \in Paths :
          /\ fs[p].kind = "file"
          /\ WholeMatches(p, parts_glob(last.entry))
          /\ fs[p].mtime > now
          /\ remove_after = Some(0)

\* The parts of the archive of the last pass that were on disk before it and
\* older than the threshold.
OldParts ==
    { p \in Paths :
        /\ last.fsBefore[p].kind # "absent"
        /\ WholeMatches(p, parts_glob(last.entry))
        /\ Elapsed(last.fsBefore[p].mtime, now) > remove_after[1] }

\* C5 (as claimed): under a policy and without dry-run, every old part of the
\* processed archive is gone after its pass, whether the archive was already
\* extracted, was extracted, or failed to extract.
C5_OldPartsRemovedAlways ==
    (IsPass /\ remove_after # None /\ ~dry_run /\ last.res.outcome \in {"ok", "extract"})
        => \A p \in OldParts : fs[p].kind = "absent"

\* C5 (amended): every old part is gone after a pass that completed without
\* error (already extracted or extracted now); a pass whose extraction failed
\* removed nothing.
C5_OldPartsRemovedOnSuccess ==
    (IsPass /\ remove_after # None /\ ~dry_run) =>
        /\ last.res.outcome = "ok" => \A p \in OldParts : fs[p].kind = "absent"
        /\ last.res.outcome = "extract" =>
              /\ last.res.removed = {}
              /\ \A p \in Paths : last.fsBefore[p].kind # "absent" => fs[p].kind # "absent"

\* A pass that extracted, and one that found the archive extracted, removed parts.
C5_Witness ==
    /\ IsPass /\ remove_after # None /\ ~dry_run
    /\ last.res.outcome = "ok"
    /\ OldParts # {}
    /\ last.res.verdict = "extract"

\* C6: without a retention policy nothing is ever removed: no pass removes a
\* part, the sweep never runs, and every file the run started with is there.
C6_NoPolicyNoRemoval ==
    remove_after = None =>
        /\ runlog.removed = {}
        /\ runlog.swept = 0
        /\ pc # "cruft"
        /\ \A p \in Paths : fs0[p].kind # "absent" => fs[p].kind # "absent"

\* The run is over, archives were processed, and parts older than two hours
\* are still on disk.
C6_Witness ==
    /\ remove_after = None
    /\ pc = "done"
    /\ runlog.passes >= 2
    /\ fs[N_m_part1].kind = "file"
    /\ Elapsed(fs[N_m_part1].mtime, now) > 2 * Hour

\* C7: when open, completeness check and extraction of an archive succeed and
\* no I/O failure occurs, the destination of every root-archive entry of its
\* manifest is appended to the queue, behind the paths already queued.
C7_EveryNestedEnqueued ==
    (IsPass /\ NoFaultYet /\ last.res.outcome \notin {"metadata", "open", "check", "extract"})
        => queue = Tail(last.qBefore) \o RootEntries(LastHeaders)

\* C8: after a pass, every nested archive whose mtime the pass set carries the
\* modification time the container had before the pass, and a pass that got
\* through its nested loop set it for every nested archive of the manifest.
C8_NestedMtimeIsContainers ==
    IsPass =>
        /\ \A p \in last.res.touched :
              fs[p].kind # "absent" => fs[p].mtime = last.fsBefore[last.entry].mtime
        /\ last.res.outcome \in {"ok", "listparts", "partstat", "remove"} =>
              \A i \in 1..Len(RootEntries(LastHeaders)) :
                  /\ RootEntries(LastHeaders)[i] \in last.res.touched
                  /\ fs[RootEntries(LastHeaders)[i]].kind = "file"

\* The pass extracted the container (which restores the nested archive's
\* stored time), then reset the nested archives' time to a different one.
C8_Witness ==
    /\ IsPass
    /\ last.res.extracted
    /\ last.res.outcome = "ok"
    /\ last.res.touched # {}
    /\ \A p \in last.res.touched :
          \E i \in 1..Len(LastHeaders) :
              /\ LastHeaders[i].filename = p
              /\ LastHeaders[i].mtime # fs[p].mtime

\* The classification C9 states: name.part<N>.rar is a root archive iff N is 1,
\* any other name ending in ".rar" is one, no other name is.
NumberedPartStarts(s) ==
    { i \in 1..Len(s) :
        /\ i + 3 <= Len(s)
        /\ SubSeq(s, i, i + 3) = <<"p", "a", "r", "t">>
        /\ i + 4 <= Len(s) - 4
        /\ \A j \in (i + 4)..(Len(s) - 4) : s[j] \in Digits
        /\ EndsWith(s, <<".", "r", "a", "r">>) }

StatedRoot(s) ==
    IF NumberedPartStarts(s) # {}
    THEN LET i == CHOOSE i \in NumberedPartStarts(s) : TRUE
         IN  ParseU64(SubSeq(s, i + 4, Len(s) - 4)) = 1
    ELSE EndsWith(s, <<".", "r", "a", "r">>)

\* C9: is_root_rar_file answers as stated for every file name.
C9_ClassifiesAsStated ==
    probe.verdict # "unknown" =>
        ((probe.verdict = "root") <=> StatedRoot(Flatten(probe.name)))

\* How the destination file of entry i of the examined manifest is.
EntryState(i) ==
    LET h == probe.headers[i]
    IN  CASE fs[h.filename].kind = "absent" -> "absent"
          [] fs[h.filename].kind = "denied" -> "denied"
          [] fs[h.filename].len # h.unpacked_size -> "short"
          [] OTHER -> "match"

Checked == probe.result # "none"

\* C10 (as claimed): one missing or size-mismatched entry makes the check
\* return false, however the other entries are (unreadable included), and it
\* returns true only when every entry matches.
C10_AnyBadEntryGivesFalse ==
    Checked =>
        /\ (\E i \in 1..Len(probe.headers) : EntryState(i) \in {"absent", "short"})
              => probe.result = "false"
        /\ probe.result = "true" =>
              \A i \in 1..Len(probe.headers) : EntryState(i) = "match"

\* C10 (amended): the first entry that is not present with its size decides:
\* missing or mismatched gives false whatever the later entries are, unreadable
\* gives the error; true exactly when every entry matches.
C10_FirstBadEntryDecides ==
    Checked =>
        /\ probe.result = "true" <=>
              \A i \in 1..Len(probe.headers) : EntryState(i) = "match"
        /\ \A i \in 1..Len(probe.headers) :
              (\A j \in 1..(i - 1) : EntryState(j) = "match") =>
                  /\ EntryState(i) \in {"absent", "short"} => probe.result = "false"
                  /\ EntryState(i) = "denied" => probe.result = "err"

\* The check returned false for a mismatched entry although a later entry is
\* unreadable and another is missing.
C10_Witness ==
    /\ probe.result = "false"
    /\ \E i, j, k \in 1..Len(probe.headers) :
          /\ i < j /\ i < k
          /\ EntryState(i) = "short"
          /\ EntryState(j) = "denied"
          /\ EntryState(k) = "absent"

\* ------------------------------------------- --remove-after-hours alone
\* A u64 is kept whole: four 16-bit limbs, least significant first, so that
\* the product of line 254 overflows where the program's does.
LimbBase == 2 ^ 16

LimbCount == 4

\* limbs * k + carry, limb by limb from position i; carry is what does not fit.
RECURSIVE MulSmall(_, _, _, _)
MulSmall(limbs, k, i, carry) ==
    IF i > Len(limbs) THEN [limbs |-> <<>>, carry |-> carry]
    ELSE LET t == limbs[i] * k + carry
             rest == MulSmall(limbs, k, i + 1, t \div LimbBase)
         IN  [limbs |-> <<t % LimbBase>> \o rest.limbs, carry |-> rest.carry]

\* limbs divided by k, from the most significant limb i down: quotient and
\* remainder.
RECURSIVE DivSmall(_, _, _, _)
DivSmall(limbs, k, i, rem) ==
    IF i < 1 THEN [q |-> <<>>, r |-> rem]
    ELSE LET t == rem * LimbBase + limbs[i]
             rest == DivSmall(limbs, k, i - 1, t % k)
         IN  [q |-> Append(rest.q, t \div k), r |-> rest.r]

\* a > b on limbs, compared from the most significant limb i down.
RECURSIVE LimbsGreater(_, _, _)
LimbsGreater(a, b, i) ==
    IF i < 1 THEN FALSE
    ELSE IF a[i] # b[i] THEN a[i] > b[i]
    ELSE LimbsGreater(a, b, i - 1)

\* main, line 254: 60 * 60 * h in u64.  When the product does not fit, a build
\* with overflow checks panics and a build without wraps.
DurationFromHoursU64(h, checks) ==
    LET m == MulSmall(h, 60 * 60, 1, 0)
    IN  [panic |-> (m.carry # 0 /\ checks), secs |-> m.limbs]

\* UnarchiveQueue::should_remove on an elapsed time in whole seconds.
should_remove_u64(elapsed, threshold) == LimbsGreater(elapsed, threshold, LimbCount)

\* Limb values and the u64 values built from them: 2^64 / 3600 lies between
\* 18 * 2^48 and 19 * 2^48.
LimbSamples == {0, 18, 19, LimbBase - 1}

U64Samples == [1..LimbCount -> LimbSamples]

InitHours ==
    /\ ProbeFrame
    /\ \E h \in U64Samples, checks \in BOOLEAN :
          probe = [stage |-> "args", h |-> h, checks |-> checks,
                   secs |-> [i \in 1..LimbCount |-> 0],
                   elapsed |-> [i \in 1..LimbCount |-> 0], removes |-> FALSE]

\* main, line 254
HoursToDuration ==
    /\ pc = "probe"
    /\ probe.stage = "args"
    /\ LET d == DurationFromHoursU64(probe.h, probe.checks)
       IN  probe' = [probe EXCEPT !.stage = IF d.panic THEN "panic" ELSE "threshold",
                                  !.secs = d.secs]
    /\ UNCHANGED << fs, queue, dry_run, remove_after, now, pc, exit_code, run,
                    faultsLeft, last, fs0, runlog, prevClean >>

\* should_remove, lines 138-143, on a file of some age.
HoursShouldRemove ==
    /\ pc = "probe"
    /\ probe.stage = "threshold"
    /\ \E elapsed \in U64Samples :
          probe' = [probe EXCEPT !.stage = "judged",
                                 !.elapsed = elapsed,
                                 !.removes = should_remove_u64(elapsed, probe.secs)]
    /\ UNCHANGED << fs, queue, dry_run, remove_after, now, pc, exit_code, run,
                    faultsLeft, last, fs0, runlog, prevClean >>

NextHours == HoursToDuration \/ HoursShouldRemove

SpecHours == InitHours /\ [][NextHours]_vars

\* ------------------------------------- a dry run beside a run that mutates
\* Two invocations of main on copies of one fixture, stepped together: the
\* variables hold the run with --dry-run, probe the run without.  No I/O
\* failure is injected.

\* One call of process_next (lines 69-79) in a run given by its tree and queue.
Turn(tree, q, dry, dlen) ==
    IF q = <<>>
    THEN [fs |-> tree, queue |-> q,
          last |-> [NoStep EXCEPT !.kind = "drained", !.fsBefore = tree]]
    ELSE LET r == process_entry(Head(q), tree, dry, remove_after, NoFault, now, dlen)
         IN  [fs |-> r.fs, queue |-> Tail(q) \o r.enq,
              last |-> [kind |-> "pass", entry |-> Head(q), res |-> r,
                        ret |-> process_next_result(r).ret,
                        fsBefore |-> tree, qBefore |-> q]]

\* main, lines 260-262, in a run given by its tree.
Sweep(tree, dry) ==
    LET r == find_cruft(tree, dry, remove_after[1], NoFault, now)
    IN  [fs |-> r.fs, queue |-> <<>>,
         last |-> [kind |-> "cruft", entry |-> <<>>, res |-> r, ret |-> FALSE,
                   fsBefore |-> tree, qBefore |-> <<>>]]

InitPair ==
    /\ fs \in Fixtures
    /\ fs0 = fs
    /\ queue = <<>>
    /\ dry_run = TRUE
    /\ \E h \in HourArgs :
          remove_after = IF h = None THEN None ELSE Some(DurationFromHours(h[1]))
    /\ now = Now0
    /\ pc = "scan"
    /\ exit_code = "running"
    /\ run = 1
    /\ faultsLeft = 0
    /\ last = NoStep
    /\ runlog = EmptyLog
    /\ prevClean = FALSE
    /\ probe = [fs |-> fs, queue |-> <<>>, last |-> NoStep]

\* main, line 257, in both runs.
PairFindRarFiles ==
    /\ pc = "scan"
    /\ queue' = find_rar_files(fs)
    /\ last' = [NoStep EXCEPT !.kind = "scan", !.fsBefore = fs]
    /\ probe' = [probe EXCEPT !.queue = find_rar_files(probe.fs),
                              !.last = [NoStep EXCEPT !.kind = "scan",
                                                      !.fsBefore = probe.fs]]
    /\ pc' = "queue"
    /\ UNCHANGED << fs, dry_run, remove_after, now, exit_code, run, faultsLeft, fs0,
                    runlog, prevClean >>

\* main, line 258: the next call of process_next in both runs, while at least
\* one of them still has an archive queued.
PairProcessNext ==
    /\ pc = "queue"
    /\ queue # <<>> \/ probe.queue # <<>>
    /\ \E dlen \in DirLens :
          LET d == Turn(fs, queue, TRUE, dlen)
              w == Turn(probe.fs, probe.queue, FALSE, dlen)
          IN  /\ fs' = d.fs
              /\ queue' = d.queue
              /\ last' = d.last
              /\ probe' = w
              /\ runlog' = [runlog EXCEPT
                    !.passes = IF d.last.kind = "pass" THEN @ + 1 ELSE @,
                    !.errs = IF d.last.res.outcome # "ok" THEN @ + 1 ELSE @]
    /\ UNCHANGED << dry_run, remove_after, now, pc, exit_code, run, faultsLeft, fs0,
                    prevClean >>

\* main, line 258: process_next has returned Ok(false) in both runs.
PairQueueDrained ==
    /\ pc = "queue"
    /\ queue = <<>> /\ probe.queue = <<>>
    /\ pc' = IF remove_after # None THEN "cruft" ELSE "done"
    /\ exit_code' = IF remove_after # None THEN "running" ELSE "ok"
    /\ last' = [NoStep EXCEPT !.kind = "drained", !.fsBefore = fs]
    /\ probe' = [probe EXCEPT !.last = [NoStep EXCEPT !.kind = "drained",
                                                      !.fsBefore = probe.fs]]
    /\ UNCHANGED << fs, queue, dry_run, remove_after, now, run, faultsLeft, fs0,
                    runlog, prevClean >>

\* main, lines 260-264, in both runs.
PairFindCruft ==
    /\ pc = "cruft"
    /\ LET d == Sweep(fs, TRUE)
           w == Sweep(probe.fs, FALSE)
       IN  /\ fs' = d.fs
           /\ last' = d.last
           /\ probe' = w
           /\ exit_code' = IF d.last.res.outcome = "ok" THEN "ok" ELSE "err"
           /\ runlog' = [runlog EXCEPT !.swept = @ + 1]
    /\ pc' = "done"
    /\ UNCHANGED << queue, dry_run, remove_after, now, run, faultsLeft, fs0,
                    prevClean >>

NextPair == PairFindRarFiles \/ PairProcessNext \/ PairQueueDrained \/ PairFindCruft

SpecPair == InitPair /\ [][NextPair]_vars

\* The paths the sweep of the last step had to examine that were older than
\* the threshold: the matches of "**/*.r??" and of "**/*.sfv".
OldCruft ==
    { p \in Paths :
        /\ last.fsBefore[p].kind # "absent"
        /\ \/ SuffixMatches(p, <<".", "r", "?", "?">>)
           \/ SuffixMatches(p, <<".", "s", "f", "v">>)
        /\ Elapsed(last.fsBefore[p].mtime, now) > remove_after[1] }

\* C11: in the retention pass and in the sweep, a failed stat or removal of one
\* candidate does not keep the other candidates from being removed: at most
\* the failing candidate itself is left among the old ones.
C11_FailureDoesNotBlock ==
    (/\ last.kind \in {"pass", "cruft"}
     /\ remove_after # None
     /\ ~dry_run
     /\ last.res.outcome \in {"partstat", "remove"})
        => LET old == IF last.kind = "pass" THEN OldParts ELSE OldCruft
           IN  Cardinality({p \in old : fs[p].kind # "absent"}) <= 1

\* C12: a dry run and a run that mutates, stepped side by side on one fixture,
\* take the same decisions: at every step both analyse the same archive, reach
\* the same verdict, enqueue the same nested archives and select the same
\* removal candidates.
C12_SameDecisions ==
    last.kind \in {"pass", "drained", "cruft"}
        => /\ probe.last.kind = last.kind
           /\ probe.last.entry = last.entry
           /\ probe.last.res.verdict = last.res.verdict
           /\ probe.last.res.enq = last.res.enq
           /\ probe.last.res.cands = last.res.cands

\* The destination held a size-matching copy of every entry of the manifest
\* when the last pass began.
AlreadyThere ==
    \A i \in 1..Len(LastHeaders) :
        /\ last.fsBefore[LastHeaders[i].filename].kind \in {"file", "dir"}
        /\ last.fsBefore[LastHeaders[i].filename].len = LastHeaders[i].unpacked_size

\* The file entries of the manifest the last pass read, and the directories
\* holding them.
FileEntries == { LastHeaders[i].filename : i \in { j \in 1..Len(LastHeaders) : LastHeaders[j].is_file } }

EntryDirs == { ParentDir(p) : p \in FileEntries } \ {<<>>}

\* The last pass called extract_into and left exactly the manifest's file
\* entries: each is on disk with the manifest's size and content, and nothing
\* else differs from before but their parent directories and the parts the
\* retention step removed.
WroteManifest ==
    /\ last.res.extracted
    /\ \A i \in 1..Len(LastHeaders) :
          LastHeaders[i].is_file =>
              /\ fs[LastHeaders[i].filename].kind = "file"
              /\ fs[LastHeaders[i].filename].len = LastHeaders[i].unpacked_size
              /\ fs[LastHeaders[i].filename].data = LastHeaders[i].data
    /\ \A p \in Paths :
          p \notin FileEntries \cup EntryDirs \cup { r.path : r \in last.res.removed }
              => fs[p] = last.fsBefore[p]

PartialBefore ==
    \E p \in FileEntries :
        \/ last.fsBefore[p].kind = "absent"
        \/ /\ last.fsBefore[p].kind = "file"
           /\ \E i \in 1..Len(LastHeaders) :
                 /\ LastHeaders[i].filename = p
                 /\ last.fsBefore[p].len < LastHeaders[i].unpacked_size

\* C14: a pass that finds the destination partially populated (a manifest file
\* missing or truncated, as a failed extraction leaves it) gets false from the
\* completeness check and extracts again; when that pass ends Ok every
\* manifest file is present at its manifest size.
C14_PartialIsExtractedAgain ==
    (/\ IsPass
     /\ ~dry_run
     /\ last.res.outcome \notin {"metadata", "open", "check"}
     /\ PartialBefore)
        => /\ last.res.verdict = "extract"
           /\ last.res.extracted
           /\ last.res.outcome = "ok" =>
                 \A i \in 1..Len(LastHeaders) :
                     LastHeaders[i].is_file =>
                         /\ fs[LastHeaders[i].filename].kind = "file"
                         /\ fs[LastHeaders[i].filename].len = LastHeaders[i].unpacked_size

\* A pass that found the zero-length remnant of an extraction that died while
\* writing, extracted again and ended Ok.
C14_Witness ==
    /\ IsPass
    /\ ~dry_run
    /\ faultsLeft < MaxFaults
    /\ last.res.outcome = "ok"
    /\ last.res.extracted
    /\ \E p \in FileEntries :
          /\ last.fsBefore[p].kind = "file"
          /\ last.fsBefore[p].len = 0
          /\ fs[p].len > 0

\* What the calls of process_next did to the queue: Ok(false) only on an
\* empty queue, Ok(true) with exactly the head entry removed (and the nested
\* archives of its pass appended), and the loop left only with an empty queue.
C15_Calls ==
    /\ last.kind = "drained" => (~last.ret /\ queue = <<>>)
    /\ IsPass => /\ last.ret
                 /\ last.qBefore # <<>>
                 /\ last.entry = Head(last.qBefore)
                 /\ queue = Tail(last.qBefore) \o last.res.enq
    /\ (pc \in {"cruft", "done"} /\ last.kind # "scanfail") => queue = <<>>

\* Two archives holding each other, every pass running without an I/O
\* failure: the loop is never left.
C15_CycleNeverDrains ==
    (fs0 = Cyclic /\ NoFaultYet /\ pc # "scan") => (pc = "queue" /\ queue # <<>>)

\* C15: the loop stops exactly when the queue is empty (process_next returns
\* false iff it is, each call returning true removes exactly the head entry);
\* on archives nested without a cycle the queue drains and the run ends, while
\* archives that re-enqueue each other keep the queue non-empty forever.
C15_LoopEndsWhenQueueEmpty ==
    /\ [](C15_Calls /\ C15_CycleNeverDrains)
    /\ (fs0 \in Fixtures) ~> (pc = "done")

\* A run on nested archives that went through the loop and ended.
C15_Witness ==
    /\ fs0 \in Fixtures
    /\ pc = "done"
    /\ exit_code = "ok"
    /\ runlog.passes >= 4
    /\ runlog.extracted # {}

\* C16: the sweep runs at most once per run, only under a retention policy
\* and only once the queue is empty; no pass follows it; and failed passes do
\* not keep it from running: a run that got past discovery under a policy
\* ends having swept.
C16_SweepOnceAfterDrain ==
    /\ runlog.swept <= 1
    /\ runlog.swept = 1 =>
          (remove_after # None /\ pc = "done" /\ queue = <<>> /\ last.kind = "cruft")
    /\ pc = "cruft" => (remove_after # None /\ queue = <<>> /\ runlog.swept = 0)
    /\ IsPass => runlog.swept = 0
    /\ (pc = "done" /\ remove_after # None /\ last.kind # "scanfail") => runlog.swept = 1

\* A run with a failed pass that ended with the sweep.
C16_Witness ==
    /\ pc = "done"
    /\ runlog.swept = 1
    /\ runlog.errs >= 1
    /\ runlog.passes >= 2
    /\ last.kind = "cruft"

\* The parts of the archive of the last pass, as they were when it began.
PartsBefore == list_parts(last.fsBefore, last.entry)

\* C17: when a step of a pass fails, the later steps of that pass do not run:
\* a failure before or in extraction enqueues nothing, sets no mtime and
\* removes nothing; a failed mtime update ends the nested loop at the entry it
\* struck (the entries before it are enqueued and updated, none after it) and
\* no part is examined; a failed stat or removal leaves every later part.
C17_FailureAbandonsPass ==
    IsPass =>
        /\ last.res.outcome \in {"metadata", "open", "check"} =>
              /\ fs = last.fsBefore
              /\ last.res.enq = <<>>
              /\ last.res.touched = {}
              /\ last.res.removed = {}
        /\ last.res.outcome = "extract" =>
              /\ last.res.enq = <<>>
              /\ last.res.touched = {}
              /\ last.res.removed = {}
        /\ last.res.outcome = "setmtime" =>
              /\ Len(last.res.enq) >= 1
              /\ last.res.enq =
                    SubSeq(RootEntries(LastHeaders), 1, Len(last.res.enq))
              /\ last.res.touched =
                    { last.res.enq[j] : j \in 1..(Len(last.res.enq) - 1) }
              /\ last.res.cands = {}
              /\ last.res.removed = {}
        /\ last.res.outcome = "listparts" =>
              /\ last.res.cands = {}
              /\ last.res.removed = {}
        /\ last.res.outcome \in {"partstat", "remove"} =>
              \E k \in 1..Len(PartsBefore) :
                  /\ fs[PartsBefore[k]].kind # "absent"
                  /\ \A j \in (k + 1)..Len(PartsBefore) :
                        fs[PartsBefore[j]] = last.fsBefore[PartsBefore[j]]

\* A pass whose mtime update failed before the last nested archive, under a
\* policy that would have removed its parts.
C17_Witness ==
    /\ IsPass
    /\ ~dry_run
    /\ last.res.extracted
    /\ last.res.outcome = "setmtime"
    /\ Len(last.res.enq) < Len(RootEntries(LastHeaders))
    /\ remove_after # None
    /\ OldParts # {}

C19_SweepSparesRar ==
    last.kind = "cruft" =>
        \A r \in last.res.removed :
            /\ ~EndsWith(r.path, <<".", "r", "a", "r">>)
            /\ \/ SuffixMatches(r.path, <<".", "r", "?", "?">>)
               \/ SuffixMatches(r.path, <<".", "s", "f", "v">>)

\* C20: for every u64 h the threshold is exactly 3600*h seconds, without
\* overflow or wrap-around (the threshold divided by 3600 gives h back, and
\* nothing panics), so a file is removed only if it is older than h hours.
C20_ThresholdIsExactlyHours ==
    /\ probe.stage # "panic"
    /\ probe.stage \in {"threshold", "judged"} =>
          DivSmall(probe.secs, 60 * 60, LimbCount, 0) = [q |-> probe.h, r |-> 0]
    /\ (probe.stage = "judged" /\ probe.removes) =>
          LET d == DivSmall(probe.elapsed, 60 * 60, LimbCount, 0)
          IN  \/ LimbsGreater(d.q, probe.h, LimbCount)
              \/ d.q = probe.h /\ d.r > 0

====
